---- MODULE Spec2Model ----
(***************************************************************************)
(* Model of src/reset_password.py: a command-line script that parses its   *)
(* arguments, initializes the Firebase Admin SDK from a credential file,   *)
(* optionally looks the target user up, and overwrites the user's          *)
(* password.  One invocation of main() is one run; successive runs share   *)
(* only the identity platform's user table.                                *)
(***************************************************************************)
EXTENDS Integers, Sequences, FiniteSets, TLC

VARIABLES
    cmdline,    \* what the caller asked for on the command line
    argv,       \* the process arguments handed to the parser
    pc,         \* position in main(): parse, init, lookup, reset, done
    args,       \* the parsed namespace
    app,        \* TRUE once firebase_admin.initialize_app has succeeded
    user_info,  \* <<>> for None, <<dict>> for the profile dict
    success,    \* return value of reset_user_password
    exit_code,  \* process exit status, -1 while running
    calls,      \* SDK calls issued in this run, in order
    out,        \* messages printed in this run, in order
    users,      \* the identity platform's user table
    run,        \* ordinal of the current invocation
    prev        \* summary of the previous invocation

vars == <<cmdline, argv, pc, args, app, user_info, success, exit_code,
          calls, out, users, run, prev>>

\* Number of successive invocations explored.
MaxRuns == 2

----------------------------------------------------------------------------
(* The environment: files on disk and accounts on the platform.            *)

ExistingFiles == {"bad.json", "key.json"}
ValidCerts == {"key.json"}
CredentialPaths == {"missing.json", "bad.json", "key.json"}

UserIds == {"u1", "u2", "ghost"}
Passwords == {"pw1", "password123"}

InitialUsers ==
    [u \in {"u1", "u2"} |->
        [password |-> "old",
         email |-> IF u = "u1" THEN "u1@example.com" ELSE "",
         display_name |-> IF u = "u1" THEN "User One" ELSE "",
         disabled |-> (u = "u2"),
         email_verified |-> (u = "u1")]]

----------------------------------------------------------------------------
(* Command line.                                                           *)

UserFlags == {"-u", "--user-id"}
CredFlags == {"-c", "--credentials"}
PassFlags == {"-p", "--password"}
ShowFlags == {"--show-user-info"}
HelpFlags == {"-h", "--help"}
OptionStrings == UserFlags \cup CredFlags \cup PassFlags \cup ShowFlags \cup HelpFlags

\* The caller's intent: each option is absent (<<>>) or given (<<value>>);
\* a password option may also be left dangling without its value.
\* The dangling option is tried without a -p value, the stray argument with
\* the short spellings.
CommandLines ==
    {c \in [uid : {<<>>} \cup {<<u>> : u \in UserIds},
            cred : {<<>>} \cup {<<c>> : c \in CredentialPaths},
            pw : {<<>>} \cup {<<p>> : p \in Passwords},
            dangling : BOOLEAN,
            show : BOOLEAN,
            help : BOOLEAN,
            long : BOOLEAN,
            stray : BOOLEAN] :
        /\ (c.dangling => c.pw = <<>>)
        /\ (c.stray => ~c.long)}

BuildArgv(c) ==
    (IF c.stray THEN <<"stray">> ELSE <<>>)
    \o (IF c.uid = <<>> THEN <<>>
        ELSE <<IF c.long THEN "--user-id" ELSE "-u", c.uid[1]>>)
    \o (IF c.pw = <<>> THEN <<>>
        ELSE <<IF c.long THEN "--password" ELSE "-p", c.pw[1]>>)
    \o (IF c.show THEN <<"--show-user-info">> ELSE <<>>)
    \o (IF c.cred = <<>> THEN <<>>
        ELSE <<IF c.long THEN "--credentials" ELSE "-c", c.cred[1]>>)
    \o (IF c.help THEN <<IF c.long THEN "--help" ELSE "-h">> ELSE <<>>)
    \o (IF c.dangling THEN <<IF c.long THEN "--password" ELSE "-p">> ELSE <<>>)

\* The namespace before any argument is consumed: only -p has a default.
DefaultNamespace ==
    [user_id |-> <<>>, credentials |-> <<>>, password |-> "password123",
     show_user_info |-> FALSE, extras |-> <<>>]

RECURSIVE consume(_, _)
consume(toks, ns) ==
    IF toks = <<>> THEN
        IF ns.user_id = <<>> \/ ns.credentials = <<>>
        THEN [status |-> "error", ns |-> ns]
        ELSE IF ns.extras # <<>>
        THEN [status |-> "error", ns |-> ns]
        ELSE [status |-> "ok", ns |-> ns]
    ELSE LET t == Head(toks)
             r == Tail(toks)
         IN  IF t \in HelpFlags THEN [status |-> "help", ns |-> ns]
             ELSE IF t \in ShowFlags
             THEN consume(r, [ns EXCEPT !.show_user_info = TRUE])
             ELSE IF t \in UserFlags \cup CredFlags \cup PassFlags
             THEN IF r = <<>> \/ Head(r) \in OptionStrings
                  THEN [status |-> "error", ns |-> ns]
                  ELSE IF t \in UserFlags
                  THEN consume(Tail(r), [ns EXCEPT !.user_id = <<Head(r)>>])
                  ELSE IF t \in CredFlags
                  THEN consume(Tail(r), [ns EXCEPT !.credentials = <<Head(r)>>])
                  ELSE consume(Tail(r), [ns EXCEPT !.password = Head(r)])
             ELSE consume(r, [ns EXCEPT !.extras = Append(@, t)])

parse_args(toks) == consume(toks, DefaultNamespace)

NoArgs == [user_id |-> "", credentials |-> "", password |-> "",
           show_user_info |-> FALSE]

----------------------------------------------------------------------------
(* Printed messages and SDK calls.                                         *)

Msg(m, a) == [msg |-> m, arg |-> a]
Call(o, u, p, r) == [op |-> o, uid |-> u, password |-> p, res |-> r]

ErrorMsgs == {"usage_error", "init_error", "reset_user_not_found",
              "reset_error", "lookup_error", "lookup_user_not_found",
              "reset_failed"}

\* The platform's answers.  fault stands for any SDK error other than
\* "user not found" (network failure, permission error, invalid argument).
auth_get_user(st, uid, fault) ==
    IF fault THEN "error"
    ELSE IF uid \in DOMAIN st THEN "ok" ELSE "not_found"

auth_update_user(st, uid, fault) ==
    IF fault THEN "error"
    ELSE IF uid \in DOMAIN st THEN "ok" ELSE "not_found"

\* The platform stores the new password unconditionally.
StorePassword(st, uid, pw) == [st EXCEPT ![uid].password = pw]

----------------------------------------------------------------------------
(* The three functions of the script.                                      *)

\* Variant: the except branch forgets sys.exit(1).
initialize_firebase_no_exit(credentials_path, fault) ==
    IF credentials_path \notin ExistingFiles
    THEN [ok |-> TRUE, calls |-> <<>>,
          out |-> <<Msg("init_error", credentials_path)>>]
    ELSE IF credentials_path \notin ValidCerts \/ fault
    THEN [ok |-> TRUE,
          calls |-> <<Call("initialize", "", "", "error")>>,
          out |-> <<Msg("init_error", credentials_path)>>]
    ELSE [ok |-> TRUE,
          calls |-> <<Call("initialize", "", "", "ok")>>,
          out |-> <<Msg("init_ok", "")>>]

\* Variant: the except branch exits without printing the error.
initialize_firebase_silent(credentials_path, fault) ==
    IF credentials_path \notin ExistingFiles
    THEN [ok |-> FALSE, calls |-> <<>>, out |-> <<>>]
    ELSE IF credentials_path \notin ValidCerts \/ fault
    THEN [ok |-> FALSE,
          calls |-> <<Call("initialize", "", "", "error")>>,
          out |-> <<>>]
    ELSE [ok |-> TRUE,
          calls |-> <<Call("initialize", "", "", "ok")>>,
          out |-> <<Msg("init_ok", "")>>]

initialize_firebase(credentials_path, fault) ==
    IF credentials_path \notin ExistingFiles
    THEN [ok |-> FALSE, calls |-> <<>>,
          out |-> <<Msg("init_error", credentials_path)>>]
    ELSE IF credentials_path \notin ValidCerts \/ fault
    THEN [ok |-> FALSE,
          calls |-> <<Call("initialize", "", "", "error")>>,
          out |-> <<Msg("init_error", credentials_path)>>]
    ELSE [ok |-> TRUE,
          calls |-> <<Call("initialize", "", "", "ok")>>,
          out |-> <<Msg("init_ok", "")>>]

\* Variant: the success branch forgets "return True".
reset_user_password_no_return(user_id, new_password, st, fault) ==
    LET res == auth_update_user(st, user_id, fault)
        c == <<Call("update", user_id, new_password, res)>>
    IN  IF res = "ok"
        THEN [ret |-> FALSE, calls |-> c,
              users |-> StorePassword(st, user_id, new_password),
              out |-> <<Msg("reset_ok", user_id)>>]
        ELSE IF res = "not_found"
        THEN [ret |-> FALSE, calls |-> c, users |-> st,
              out |-> <<Msg("reset_user_not_found", user_id)>>]
        ELSE [ret |-> FALSE, calls |-> c, users |-> st,
              out |-> <<Msg("reset_error", user_id)>>]

\* Variant: the generic except branch returns True.
reset_user_password_swallow(user_id, new_password, st, fault) ==
    LET res == auth_update_user(st, user_id, fault)
        c == <<Call("update", user_id, new_password, res)>>
    IN  IF res = "ok"
        THEN [ret |-> TRUE, calls |-> c,
              users |-> StorePassword(st, user_id, new_password),
              out |-> <<Msg("reset_ok", user_id)>>]
        ELSE IF res = "not_found"
        THEN [ret |-> FALSE, calls |-> c, users |-> st,
              out |-> <<Msg("reset_user_not_found", user_id)>>]
        ELSE [ret |-> TRUE, calls |-> c, users |-> st,
              out |-> <<Msg("reset_error", user_id)>>]

\* Variant: the update call passes the default instead of new_password.
reset_user_password_default(user_id, new_password, st, fault) ==
    LET res == auth_update_user(st, user_id, fault)
        c == <<Call("update", user_id, "password123", res)>>
    IN  IF res = "ok"
        THEN [ret |-> TRUE, calls |-> c,
              users |-> StorePassword(st, user_id, "password123"),
              out |-> <<Msg("reset_ok", user_id)>>]
        ELSE IF res = "not_found"
        THEN [ret |-> FALSE, calls |-> c, users |-> st,
              out |-> <<Msg("reset_user_not_found", user_id)>>]
        ELSE [ret |-> FALSE, calls |-> c, users |-> st,
              out |-> <<Msg("reset_error", user_id)>>]

\* Variant: the reset is refused when the stored password already equals
\* the new one.
reset_user_password_if_changed(user_id, new_password, st, fault) ==
    LET res == auth_update_user(st, user_id, fault)
        c == <<Call("update", user_id, new_password, res)>>
    IN  IF user_id \in DOMAIN st /\ st[user_id].password = new_password
        THEN [ret |-> FALSE, calls |-> <<>>, users |-> st,
              out |-> <<Msg("reset_error", user_id)>>]
        ELSE IF res = "ok"
        THEN [ret |-> TRUE, calls |-> c,
              users |-> StorePassword(st, user_id, new_password),
              out |-> <<Msg("reset_ok", user_id)>>]
        ELSE IF res = "not_found"
        THEN [ret |-> FALSE, calls |-> c, users |-> st,
              out |-> <<Msg("reset_user_not_found", user_id)>>]
        ELSE [ret |-> FALSE, calls |-> c, users |-> st,
              out |-> <<Msg("reset_error", user_id)>>]

\* Variant: a failed update is retried once.
reset_user_password_retry(user_id, new_password, st, fault) ==
    LET res == auth_update_user(st, user_id, fault)
        c == <<Call("update", user_id, new_password, res)>>
    IN  IF res = "ok"
        THEN [ret |-> TRUE, calls |-> c,
              users |-> StorePassword(st, user_id, new_password),
              out |-> <<Msg("reset_ok", user_id)>>]
        ELSE IF res = "not_found"
        THEN [ret |-> FALSE, calls |-> c \o c, users |-> st,
              out |-> <<Msg("reset_user_not_found", user_id)>>]
        ELSE [ret |-> FALSE, calls |-> c \o c, users |-> st,
              out |-> <<Msg("reset_error", user_id)>>]

reset_user_password(user_id, new_password, st, fault) ==
    LET res == auth_update_user(st, user_id, fault)
        c == <<Call("update", user_id, new_password, res)>>
    IN  IF res = "ok"
        THEN [ret |-> TRUE, calls |-> c,
              users |-> StorePassword(st, user_id, new_password),
              out |-> <<Msg("reset_ok", user_id)>>]
        ELSE IF res = "not_found"
        THEN [ret |-> FALSE, calls |-> c, users |-> st,
              out |-> <<Msg("reset_user_not_found", user_id)>>]
        ELSE [ret |-> FALSE, calls |-> c, users |-> st,
              out |-> <<Msg("reset_error", user_id)>>]

\* Variant: UserNotFoundError yields a dict of blanks instead of None.
get_user_info_blank(user_id, st, fault) ==
    LET res == auth_get_user(st, user_id, fault)
        c == <<Call("lookup", user_id, "", res)>>
    IN  IF res = "ok"
        THEN [ret |-> <<[uid |-> user_id,
                         email |-> st[user_id].email,
                         display_name |-> st[user_id].display_name,
                         disabled |-> st[user_id].disabled,
                         email_verified |-> st[user_id].email_verified]>>,
              calls |-> c, out |-> <<>>]
        ELSE IF res = "not_found"
        THEN [ret |-> <<[uid |-> user_id, email |-> "", display_name |-> "",
                         disabled |-> FALSE, email_verified |-> FALSE]>>,
              calls |-> c, out |-> <<>>]
        ELSE [ret |-> <<>>, calls |-> c,
              out |-> <<Msg("lookup_error", user_id)>>]

get_user_info(user_id, st, fault) ==
    LET res == auth_get_user(st, user_id, fault)
        c == <<Call("lookup", user_id, "", res)>>
    IN  IF res = "ok"
        THEN [ret |-> <<[uid |-> user_id,
                         email |-> st[user_id].email,
                         display_name |-> st[user_id].display_name,
                         disabled |-> st[user_id].disabled,
                         email_verified |-> st[user_id].email_verified]>>,
              calls |-> c, out |-> <<>>]
        ELSE IF res = "not_found"
        THEN [ret |-> <<>>, calls |-> c, out |-> <<>>]
        ELSE [ret |-> <<>>, calls |-> c,
              out |-> <<Msg("lookup_error", user_id)>>]

\* Variant: the profile is fetched whether or not the flag was given.
show_requested_always(a) == TRUE

show_requested(a) == a.show_user_info

----------------------------------------------------------------------------
(* main(), step by step.                                                   *)

Init ==
    /\ cmdline \in CommandLines
    /\ argv = BuildArgv(cmdline)
    /\ pc = "parse"
    /\ args = NoArgs
    /\ app = FALSE
    /\ user_info = <<>>
    /\ success = FALSE
    /\ exit_code = -1
    /\ calls = <<>>
    /\ out = <<>>
    /\ users = InitialUsers
    /\ run = 1
    /\ prev = [ok |-> FALSE, uid |-> "", password |-> "", users |-> InitialUsers]

ParseArgs ==
    /\ pc = "parse"
    /\ LET r == parse_args(argv)
       IN  IF r.status = "help"
           THEN /\ out' = Append(out, Msg("help", ""))
                /\ exit_code' = 0
                /\ pc' = "done"
                /\ args' = args
           ELSE IF r.status = "error"
           THEN /\ out' = Append(out, Msg("usage_error", ""))
                /\ exit_code' = 2
                /\ pc' = "done"
                /\ args' = args
           ELSE /\ args' = [user_id |-> r.ns.user_id[1],
                            credentials |-> r.ns.credentials[1],
                            password |-> r.ns.password,
                            show_user_info |-> r.ns.show_user_info]
                /\ out' = Append(out, Msg("banner", ""))
                /\ exit_code' = exit_code
                /\ pc' = "init"
    /\ UNCHANGED <<cmdline, argv, app, user_info, success, calls, users, run, prev>>

InitializeFirebase ==
    /\ pc = "init"
    /\ \E fault \in BOOLEAN :
        LET r == initialize_firebase(args.credentials, fault)
        IN  /\ calls' = calls \o r.calls
            /\ out' = out \o r.out
            /\ app' = r.ok
            /\ IF r.ok
               THEN /\ pc' = IF show_requested(args) THEN "lookup" ELSE "reset"
                    /\ exit_code' = exit_code
               ELSE /\ pc' = "done"
                    /\ exit_code' = 1
    /\ UNCHANGED <<cmdline, argv, args, user_info, success, users, run, prev>>

ShowUserInfo ==
    /\ pc = "lookup"
    /\ \E fault \in BOOLEAN :
        LET r == get_user_info(args.user_id, users, fault)
        IN  /\ calls' = calls \o r.calls
            /\ user_info' = r.ret
            /\ IF r.ret # <<>>
               THEN /\ out' = out \o <<Msg("getting_info", args.user_id)>> \o r.out
                              \o <<Msg("email", r.ret[1].email),
                                   Msg("display_name", r.ret[1].display_name),
                                   Msg("email_verified", ToString(r.ret[1].email_verified)),
                                   Msg("disabled", ToString(r.ret[1].disabled))>>
                    /\ pc' = "reset"
                    /\ exit_code' = exit_code
               ELSE /\ out' = out \o <<Msg("getting_info", args.user_id)>> \o r.out
                              \o <<Msg("lookup_user_not_found", args.user_id)>>
                    /\ pc' = "done"
                    /\ exit_code' = 1
    /\ UNCHANGED <<cmdline, argv, args, app, success, users, run, prev>>

ResetPassword ==
    /\ pc = "reset"
    /\ \E fault \in BOOLEAN :
        LET r == reset_user_password(args.user_id, args.password, users, fault)
        IN  /\ calls' = calls \o r.calls
            /\ users' = r.users
            /\ success' = r.ret
            /\ IF r.ret
               THEN /\ out' = out \o <<Msg("resetting", args.user_id)>> \o r.out
                              \o <<Msg("completed", ""),
                                   Msg("new_password", args.password)>>
                    /\ exit_code' = 0
               ELSE /\ out' = out \o <<Msg("resetting", args.user_id)>> \o r.out
                              \o <<Msg("reset_failed", "")>>
                    /\ exit_code' = 1
    /\ pc' = "done"
    /\ UNCHANGED <<cmdline, argv, args, app, user_info, run, prev>>

\* The process has exited; the caller invokes the script again.
NextRun ==
    /\ pc = "done"
    /\ run < MaxRuns
    /\ cmdline' \in CommandLines
    /\ argv' = BuildArgv(cmdline')
    /\ prev' = [ok |-> (exit_code = 0 /\ success),
                uid |-> IF exit_code = 0 /\ success THEN args.user_id ELSE "",
                password |-> IF exit_code = 0 /\ success THEN args.password ELSE "",
                users |-> IF exit_code = 0 /\ success THEN users ELSE InitialUsers]
    /\ pc' = "parse"
    /\ args' = NoArgs
    /\ app' = FALSE
    /\ user_info' = <<>>
    /\ success' = FALSE
    /\ exit_code' = -1
    /\ calls' = <<>>
    /\ out' = <<>>
    /\ run' = run + 1
    /\ UNCHANGED users

Next ==
    \/ ParseArgs
    \/ InitializeFirebase
    \/ ShowUserInfo
    \/ ResetPassword
    \/ NextRun

Spec == Init /\ [][Next]_vars

----------------------------------------------------------------------------
(* Properties.                                                             *)

Idx(o) == {i \in DOMAIN calls : calls[i].op = o}
Answered(o, r) == \E i \in Idx(o) : calls[i].res = r
Printed(m) == \E i \in DOMAIN out : out[i].msg = m
ErrorPrinted == \E i \in DOMAIN out : out[i].msg \in ErrorMsgs
Parsed == args # NoArgs
Rank(p) == CASE p = "parse" -> 0 [] p = "init" -> 1 [] p = "lookup" -> 2
             [] p = "reset" -> 3 [] OTHER -> 4
ExpectedPassword == IF cmdline.pw = <<>> THEN "password123" ELSE cmdline.pw[1]
MissingRequired == cmdline.uid = <<>> \/ cmdline.cred = <<>>

\* C1: a run whose credential path does not exist never issues a lookup or
\* an update call; its only remaining step is the failing initialization,
\* after which it has exited with status 1.
C1_MissingCredentialFile ==
    (Parsed /\ args.credentials \notin ExistingFiles) =>
        /\ Idx("lookup") = {}
        /\ Idx("update") = {}
        /\ Idx("initialize") = {}
        /\ pc \in {"init", "done"}
        /\ (pc = "done" => exit_code = 1)

C1_Witness ==
    /\ pc = "done"
    /\ Parsed
    /\ args.credentials = "missing.json"
    /\ args.show_user_info
    /\ args.user_id = "u1"
    /\ exit_code = 1

\* C2: with --show-user-info, once the lookup has answered "not found" the
\* run has exited with status 1 and no update call was issued.
C2_LookupNotFoundStops ==
    (Parsed /\ args.show_user_info /\ app /\ Answered("lookup", "not_found")) =>
        /\ Idx("update") = {}
        /\ pc = "done"
        /\ exit_code = 1

C2_Witness ==
    /\ args.show_user_info
    /\ app
    /\ Answered("lookup", "not_found")
    /\ pc = "done"

\* C3: without --show-user-info, a run whose initialization and update
\* both succeeded issued exactly one update call and exited with status 0.
C3_OneUpdateExitZero ==
    (Parsed /\ ~args.show_user_info /\ app /\ Answered("update", "ok")) =>
        /\ Cardinality(Idx("update")) = 1
        /\ Len(calls) = 2
        /\ pc = "done"
        /\ exit_code = 0

C3_Witness ==
    /\ Parsed
    /\ ~args.show_user_info
    /\ app
    /\ Answered("update", "ok")
    /\ pc = "done"

\* C4 as stated: every run ends with status 0 or 1, status 0 only after a
\* successful update, and missing -u or -c ends with status 1.
C4_Original ==
    pc = "done" =>
        /\ exit_code \in {0, 1}
        /\ (exit_code = 0 => Answered("update", "ok"))
        /\ (MissingRequired => exit_code = 1)

\* C4 amended: every run ends with status 0, 1 or 2.  Status 0 is reached
\* exactly when the update call returned success or the parser printed its
\* help; status 2 exactly when the parser rejected the command line (in
\* particular when -u or -c is missing and no help was requested), before
\* any SDK call; status 1 exactly when initialization, the optional lookup
\* or the update failed.
C4_ExitCodes ==
    pc = "done" =>
        /\ exit_code \in {0, 1, 2}
        /\ (exit_code = 0 <=> (Answered("update", "ok") \/ Printed("help")))
        /\ (exit_code = 2 <=> Printed("usage_error"))
        /\ (exit_code = 2 => calls = <<>> /\ ~Parsed)
        /\ (Printed("help") => calls = <<>> /\ ~Parsed)
        /\ ((MissingRequired /\ ~cmdline.help) => exit_code = 2)
        /\ (exit_code = 1 <=>
               \/ (Parsed /\ ~app)
               \/ (Idx("lookup") # {} /\ ~Answered("lookup", "ok"))
               \/ (Idx("update") # {} /\ ~Answered("update", "ok")))

C4_Witness ==
    /\ pc = "done"
    /\ MissingRequired
    /\ ~cmdline.help
    /\ exit_code = 2

\* C5: every update call carries the -p value of the command line, or
\* "password123" when -p was not given, and the success message prints the
\* value that was sent.
C5_PasswordSent ==
    /\ \A i \in Idx("update") : calls[i].password = ExpectedPassword
    /\ \A j \in DOMAIN out : out[j].msg = "new_password" =>
           \E i \in Idx("update") : calls[i].password = out[j].arg
    /\ (pc = "done" /\ exit_code = 0 /\ Idx("update") # {}) =>
           Printed("new_password")

C5_Witness ==
    /\ pc = "done"
    /\ exit_code = 0
    /\ cmdline.pw = <<>>
    /\ \E j \in DOMAIN out : out[j] = Msg("new_password", "password123")

\* C6: when the previous run reset a user's password successfully and this
\* run names the same user and the same password, then, provided the
\* initialization succeeded and no SDK call raised a generic error, this
\* run exits with status 0 and leaves the user table as the previous run
\* left it.
C6_Idempotent ==
    (/\ pc = "done"
     /\ prev.ok
     /\ Parsed
     /\ args.user_id = prev.uid
     /\ args.password = prev.password
     /\ app
     /\ \A i \in DOMAIN calls : calls[i].res # "error") =>
        /\ exit_code = 0
        /\ Answered("update", "ok")
        /\ users = prev.users

C6_Witness ==
    /\ pc = "done"
    /\ run >= 2
    /\ prev.ok
    /\ Parsed
    /\ args.user_id = prev.uid
    /\ args.password = prev.password
    /\ exit_code = 0
    /\ users = prev.users

\* C7 as stated: the lookup path prints "user not found" exactly when the
\* SDK signalled not-found; a lookup that failed otherwise prints its error
\* and is not reported as user-not-found.
C7_LookupErrorsDistinguished ==
    /\ (Printed("lookup_user_not_found") <=> Answered("lookup", "not_found"))
    /\ (Answered("lookup", "error") =>
            Printed("lookup_error") /\ ~Printed("lookup_user_not_found"))

\* C8: each SDK operation is called at most once per run, a lookup precedes
\* any update, lookup and update come only after a successful
\* initialization, nothing is called after a failed call, and the position
\* in main() only moves forward within a run.
C8_CallOrder ==
    /\ \A o \in {"initialize", "lookup", "update"} : Cardinality(Idx(o)) <= 1
    /\ \A i \in Idx("lookup") : \A j \in Idx("update") : i < j
    /\ \A i \in Idx("lookup") \cup Idx("update") :
           \E k \in Idx("initialize") : k < i /\ calls[k].res = "ok"
    /\ \A i \in DOMAIN calls : calls[i].res # "ok" => i = Len(calls)
    /\ (Idx("lookup") \cup Idx("update") # {} => app)

C8_Linear ==
    [][/\ (run' = run => Rank(pc') > Rank(pc))
       /\ C8_CallOrder']_vars

C8_Witness ==
    /\ pc = "done"
    /\ Len(calls) = 3
    /\ calls[1].op = "initialize"
    /\ calls[2].op = "lookup"
    /\ calls[3].op = "update"
    /\ calls[3].res = "error"

\* C9: after an initialization failure, a lookup failure, an update that
\* found no user, or an update that raised any other error, the run has
\* exited with status 1 and has printed at least one error message.
C9_ErrorsReported ==
    (\/ (Parsed /\ pc \notin {"parse", "init"} /\ ~app)
     \/ (Idx("lookup") # {} /\ ~Answered("lookup", "ok"))
     \/ Answered("update", "not_found")
     \/ Answered("update", "error")) =>
        /\ pc = "done"
        /\ exit_code = 1
        /\ ErrorPrinted

C9_Witness ==
    /\ pc = "done"
    /\ Answered("update", "not_found")
    /\ exit_code = 1
    /\ Printed("reset_user_not_found")

\* C10: a lookup call is issued exactly in the runs that were given
\* --show-user-info and whose initialization succeeded; when the lookup
\* returns a profile, the update call follows with the user id of the
\* lookup, which is the -u value of the command line, whatever the profile.
C10_LookupOnlyOnRequest ==
    /\ (Idx("lookup") # {} => (cmdline.show /\ args.show_user_info /\ app))
    /\ ((Parsed /\ args.show_user_info /\ app /\ pc \in {"reset", "done"}) =>
            Idx("lookup") # {})
    /\ (~cmdline.show => Idx("lookup") = {})
    /\ (Parsed => args.user_id = cmdline.uid[1])
    /\ ((pc = "done" /\ Answered("lookup", "ok")) =>
            \E i \in Idx("lookup") : \E j \in Idx("update") :
                /\ calls[j].uid = calls[i].uid
                /\ calls[j].uid = cmdline.uid[1])

C10_Witness ==
    /\ pc = "done"
    /\ cmdline.show
    /\ Answered("lookup", "ok")
    /\ user_info # <<>>
    /\ user_info[1].disabled
    /\ ~user_info[1].email_verified
    /\ Answered("update", "ok")

====
